---- MODULE Spec2Model ----
(***************************************************************************)
(* Model of thumbnail_server (src/thumbnail_server/src/main.rs).           *)
(*                                                                         *)
(* Persistent state: the images table (rows) and the images/ directory     *)
(* (original = images/{id}.jpg, thumb = images/{id}_thumb.jpg).  Volatile   *)
(* state: the position of main, the backfill cursor, the upload handlers   *)
(* and the blocking thumbnail tasks.  A process restart keeps the          *)
(* persistent state and drops the volatile state.                          *)
(***************************************************************************)
EXTENDS Integers, Sequences, FiniteSets, TLC

\* ---------------------------------------------------------------- bounds
MaxUploads == 2      \* upload requests over the whole history
MaxRestarts == 2     \* process restarts over the whole history
MaxParts == 3        \* parts in one multipart body

\* ---------------------------------------------------------------- values
\* Image payloads: two decodable images and one that no decoder accepts.
Bytes == {"jpegA", "jpegB", "junk"}

Decodable(b) == b \in {"jpegA", "jpegB"}

\* Tag texts as sequences of characters; "0xFF" stands for a byte that is
\* not valid UTF-8.
Tags == {<<"c", "a", "t">>}

InvalidUtf8 == <<"0xFF">>

TagData == Tags \cup {InvalidUtf8}

IsUtf8(t) == \A i \in 1..Len(t) : t[i] # "0xFF"

PartNames == {"tags", "image", "file"}

RECURSIVE SeqsUpTo(_, _)
SeqsUpTo(S, n) ==
    IF n = 0 THEN {<<>>}
    ELSE LET shorter == SeqsUpTo(S, n - 1)
         IN  shorter \cup {Append(s, x) : s \in {t \in shorter : Len(t) = n - 1}, x \in S}

\* A multipart body: the part names in order, and the data carried by the
\* tags parts and by the image parts.
Bodies == [parts : SeqsUpTo(PartNames, MaxParts), tags : TagData, image : Bytes]

Ids == 1..MaxUploads

Slots == 1..MaxUploads

NoId == 0

\* Option<T> as a set with at most one element.
None == {}

Some(x) == {x}

Unwrap(o) == CHOOSE x \in o : TRUE

Put(f, k, v) == [i \in DOMAIN f \cup {k} |-> IF i = k THEN v ELSE f[i]]

RedirectPage == "redirect.html"

\* The answer to a GET: the blob found, or none.
NotFound == None

NoResp == [kind |-> "none", id |-> NoId, result |-> None]

VARIABLES
    rows,       \* images table: id -> tags
    original,   \* images/{id}.jpg: id -> [data, full]
    thumb,      \* images/{id}_thumb.jpg: id -> [data, full]
    mainPc,     \* position of main: init, backfill, ready, serving, aborted
    bfTodo,     \* ids the backfill cursor has not yielded yet
    up,         \* upload handlers, one per request slot
    tasks,      \* blocking make_thumbnail tasks: owner -> [id, pc]; owner 0 is backfill
    resp,       \* the response the last step sent to a GET, or NoResp
    handled,    \* a request has been handled in this run of the process
    rerun,      \* this run started directly after a successful backfill
    restarts    \* number of restarts so far

vars == <<rows, original, thumb, mainPc, bfTodo, up, tasks, resp, handled, rerun, restarts>>

store == <<rows, original, thumb>>

\* The message of the error save_image bails with (92).
AlreadyExists == "File already exists"

IdleUpload ==
    [pc |-> "idle", bad |-> FALSE, tags |-> None, image |-> None, id |-> NoId,
     page |-> "none", err |-> "none"]

Init ==
    /\ rows = <<>>
    /\ original = <<>>
    /\ thumb = <<>>
    /\ mainPc = "init"
    /\ bfTodo = {}
    /\ up = [u \in Slots |-> IdleUpload]
    /\ tasks = <<>>
    /\ resp = NoResp
    /\ handled = FALSE
    /\ rerun = FALSE
    /\ restarts = 0

\* ------------------------------------------------------------ main (16-52)
\* dotenv, DATABASE_URL, connect and migrate (19-28); each `?` ends main.
\* On success fill_missing_thumbnails opens its cursor over the table.
MainStart(ok) ==
    /\ mainPc = "init"
    /\ IF ok
       THEN /\ mainPc' = "backfill"
            /\ bfTodo' = DOMAIN rows
       ELSE /\ mainPc' = "aborted"
            /\ bfTodo' = {}
    /\ resp' = NoResp
    /\ UNCHANGED <<rows, original, thumb, up, tasks, handled, rerun, restarts>>

\* BackfillNext without the existence test's effect: no id is ever generated.
BackfillNext_NeverGenerates(ok) ==
    /\ mainPc = "backfill"
    /\ 0 \notin DOMAIN tasks
    /\ IF ~ok
       THEN /\ mainPc' = "aborted"
            /\ UNCHANGED <<bfTodo, tasks>>
       ELSE IF bfTodo = {}
       THEN /\ mainPc' = "ready"
            /\ UNCHANGED <<bfTodo, tasks>>
       ELSE \E id \in bfTodo :
            /\ bfTodo' = bfTodo \ {id}
            /\ UNCHANGED <<mainPc, tasks>>
    /\ resp' = NoResp
    /\ UNCHANGED <<rows, original, thumb, up, handled, rerun, restarts>>

\* BackfillNext without the existence test: every id is generated again.
BackfillNext_AlwaysGenerates(ok) ==
    /\ mainPc = "backfill"
    /\ 0 \notin DOMAIN tasks
    /\ IF ~ok
       THEN /\ mainPc' = "aborted"
            /\ UNCHANGED <<bfTodo, tasks>>
       ELSE IF bfTodo = {}
       THEN /\ mainPc' = "ready"
            /\ UNCHANGED <<bfTodo, tasks>>
       ELSE \E id \in bfTodo :
            /\ bfTodo' = bfTodo \ {id}
            /\ tasks' = Put(tasks, 0, [id |-> id, pc |-> "queued"])
            /\ UNCHANGED mainPc
    /\ resp' = NoResp
    /\ UNCHANGED <<rows, original, thumb, up, handled, rerun, restarts>>

\* One turn of the loop of fill_missing_thumbnails (236-247): the cursor
\* fails, is exhausted, or yields an id (SELECT without ORDER BY: any order);
\* a thumbnail is generated only for an id whose thumbnail file is missing.
BackfillNext(ok) ==
    /\ mainPc = "backfill"
    /\ 0 \notin DOMAIN tasks
    /\ IF ~ok
       THEN /\ mainPc' = "aborted"
            /\ UNCHANGED <<bfTodo, tasks>>
       ELSE IF bfTodo = {}
       THEN /\ mainPc' = "ready"
            /\ UNCHANGED <<bfTodo, tasks>>
       ELSE \E id \in bfTodo :
            /\ bfTodo' = bfTodo \ {id}
            /\ tasks' = IF id \in DOMAIN thumb
                        THEN tasks
                        ELSE Put(tasks, 0, [id |-> id, pc |-> "queued"])
            /\ UNCHANGED mainPc
    /\ resp' = NoResp
    /\ UNCHANGED <<rows, original, thumb, up, handled, rerun, restarts>>

\* BackfillJoin with the task's error dropped instead of propagated.
BackfillJoin_IgnoresError ==
    /\ mainPc = "backfill"
    /\ 0 \in DOMAIN tasks
    /\ tasks[0].pc \in {"done", "failed"}
    /\ tasks' = [o \in DOMAIN tasks \ {0} |-> tasks[o]]
    /\ resp' = NoResp
    /\ UNCHANGED <<rows, original, thumb, mainPc, bfTodo, up, handled, rerun, restarts>>

\* spawn_blocking(..).await?? (245): the awaited task has ended; its error
\* ends fill_missing_thumbnails and, through `?` at line 31, main.
BackfillJoin ==
    /\ mainPc = "backfill"
    /\ 0 \in DOMAIN tasks
    /\ tasks[0].pc \in {"done", "failed"}
    /\ mainPc' = IF tasks[0].pc = "failed" THEN "aborted" ELSE "backfill"
    /\ tasks' = [o \in DOMAIN tasks \ {0} |-> tasks[o]]
    /\ resp' = NoResp
    /\ UNCHANGED <<rows, original, thumb, bfTodo, up, handled, rerun, restarts>>

\* Router, bind and serve (34-49); a failed bind panics main.
Serve(ok) ==
    /\ mainPc = "ready"
    /\ mainPc' = IF ok THEN "serving" ELSE "aborted"
    /\ resp' = NoResp
    /\ UNCHANGED <<rows, original, thumb, bfTodo, up, tasks, handled, rerun, restarts>>

\* ------------------------------------------------ make_thumbnail (212-228)
Thumbnail(b) == <<"thumb100x100", b>>

\* read + guess_format + load_from_memory: only a complete, decodable file loads.
Loads(f) == f.full /\ Decodable(f.data)

TaskAlive(o) ==
    /\ o \in DOMAIN tasks
    /\ IF o = 0 THEN mainPc = "backfill" ELSE mainPc = "serving"

\* MakeThumbnailStart whose panic takes the whole process down.
MakeThumbnailStart_PanicAborts(o, ok) ==
    /\ TaskAlive(o)
    /\ tasks[o].pc = "queued"
    /\ LET id == tasks[o].id
       IN  IF ok /\ id \in DOMAIN original /\ Loads(original[id])
           THEN /\ thumb' = Put(thumb, id, [data |-> Thumbnail(original[id].data), full |-> FALSE])
                /\ tasks' = [tasks EXCEPT ![o].pc = "saving"]
                /\ UNCHANGED mainPc
           ELSE /\ tasks' = [tasks EXCEPT ![o].pc = "failed"]
                /\ mainPc' = "aborted"
                /\ UNCHANGED thumb
    /\ resp' = NoResp
    /\ UNCHANGED <<rows, original, bfTodo, up, handled, rerun, restarts>>

\* MakeThumbnailStart that creates the thumbnail file before it reads the
\* original.
MakeThumbnailStart_CreatesFirst(o, ok) ==
    /\ TaskAlive(o)
    /\ tasks[o].pc = "queued"
    /\ LET id == tasks[o].id
       IN  IF ok /\ id \in DOMAIN original /\ Loads(original[id])
           THEN /\ thumb' = Put(thumb, id, [data |-> Thumbnail(original[id].data), full |-> FALSE])
                /\ tasks' = [tasks EXCEPT ![o].pc = "saving"]
           ELSE /\ tasks' = [tasks EXCEPT ![o].pc = "failed"]
                /\ thumb' = Put(thumb, id, [data |-> Thumbnail("junk"), full |-> FALSE])
    /\ resp' = NoResp
    /\ UNCHANGED <<rows, original, mainPc, bfTodo, up, handled, rerun, restarts>>

\* Lines 213-225 up to the creation of the thumbnail file: a missing or
\* unreadable original, or bytes that do not decode, end the task with an
\* error; otherwise save() creates the file and starts writing it.
MakeThumbnailStart(o, ok) ==
    /\ TaskAlive(o)
    /\ tasks[o].pc = "queued"
    /\ LET id == tasks[o].id
       IN  IF ok /\ id \in DOMAIN original /\ Loads(original[id])
           THEN /\ thumb' = Put(thumb, id, [data |-> Thumbnail(original[id].data), full |-> FALSE])
                /\ tasks' = [tasks EXCEPT ![o].pc = "saving"]
           ELSE /\ tasks' = [tasks EXCEPT ![o].pc = "failed"]
                /\ UNCHANGED thumb
    /\ resp' = NoResp
    /\ UNCHANGED <<rows, original, mainPc, bfTodo, up, handled, rerun, restarts>>

\* The rest of save() (225): the file is completed, or a write error leaves
\* it as it is.
MakeThumbnailFinish(o, ok) ==
    /\ TaskAlive(o)
    /\ tasks[o].pc = "saving"
    /\ LET id == tasks[o].id
       IN  IF ok
           THEN /\ thumb' = [thumb EXCEPT ![id].full = TRUE]
                /\ tasks' = [tasks EXCEPT ![o].pc = "done"]
           ELSE /\ tasks' = [tasks EXCEPT ![o].pc = "failed"]
                /\ UNCHANGED thumb
    /\ resp' = NoResp
    /\ UNCHANGED <<rows, original, mainPc, bfTodo, up, handled, rerun, restarts>>

\* ------------------------------------------- Record Store insert (71-77)
Max(S) == CHOOSE x \in S : \A y \in S : y <= x

\* NewRowId of a table that numbers every row 1.
NewRowId_Constant(rs) == 1

\* The id the database gives a new row of images(id integer primary key,
\* tags text): one more than the largest id in the table.
NewRowId(rs) == IF DOMAIN rs = {} THEN 1 ELSE Max(DOMAIN rs) + 1

\* ------------------------------------------------------ uploader (100-133)
ParseStart == [panic |-> FALSE, tags |-> None, image |-> None]

\* ParseFields with parts of an unknown name skipped instead of refused.
RECURSIVE ParseFields_SkipsUnknown(_, _, _)
ParseFields_SkipsUnknown(body, i, acc) ==
    IF acc.panic \/ i > Len(body.parts)
    THEN acc
    ELSE LET name == body.parts[i]
         IN  CASE name = "tags" ->
                    IF IsUtf8(body.tags)
                    THEN ParseFields_SkipsUnknown(body, i + 1, [acc EXCEPT !.tags = Some(body.tags)])
                    ELSE [acc EXCEPT !.panic = TRUE]
               [] name = "image" ->
                    ParseFields_SkipsUnknown(body, i + 1, [acc EXCEPT !.image = Some(body.image)])
               [] OTHER -> ParseFields_SkipsUnknown(body, i + 1, acc)

\* The while loop over the multipart fields (107-117): a later part of the
\* same name replaces an earlier one; tags that are not UTF-8 and a part of
\* any other name panic.
RECURSIVE ParseFields(_, _, _)
ParseFields(body, i, acc) ==
    IF acc.panic \/ i > Len(body.parts)
    THEN acc
    ELSE LET name == body.parts[i]
         IN  CASE name = "tags" ->
                    IF IsUtf8(body.tags)
                    THEN ParseFields(body, i + 1, [acc EXCEPT !.tags = Some(body.tags)])
                    ELSE [acc EXCEPT !.panic = TRUE]
               [] name = "image" ->
                    ParseFields(body, i + 1, [acc EXCEPT !.image = Some(body.image)])
               [] OTHER -> [acc EXCEPT !.panic = TRUE]

\* The body lacks the image part or the tags part, or has a part of another name.
Malformed(body) ==
    \/ \A i \in 1..Len(body.parts) : body.parts[i] # "tags"
    \/ \A i \in 1..Len(body.parts) : body.parts[i] # "image"
    \/ \E i \in 1..Len(body.parts) : body.parts[i] \notin {"tags", "image"}

\* Lines 105-119 and 126-128: the fields are read; the handler goes on only
\* with both tags and image.
UploadParse(u, body) ==
    /\ mainPc = "serving"
    /\ up[u].pc = "idle"
    /\ \A v \in Slots : v < u => up[v].pc # "idle"
    /\ LET parsed == ParseFields(body, 1, ParseStart)
       IN  up' = [up EXCEPT ![u] =
                    IF parsed.panic \/ parsed.tags = None \/ parsed.image = None
                    THEN [IdleUpload EXCEPT !.pc = "panicked", !.bad = Malformed(body)]
                    ELSE [IdleUpload EXCEPT !.pc = "parsed", !.bad = Malformed(body),
                                            !.tags = parsed.tags, !.image = parsed.image]]
    /\ handled' = TRUE
    /\ resp' = NoResp
    /\ UNCHANGED <<rows, original, thumb, mainPc, bfTodo, tasks, rerun, restarts>>

\* A handler that panicked or died with the process: its locals are dropped.
Ended(r, how) == [r EXCEPT !.pc = how, !.tags = None, !.image = None]

\* insert_image_into_database(..).await.unwrap() (121, 71-77).
InsertImage(u, ok) ==
    /\ mainPc = "serving"
    /\ up[u].pc = "parsed"
    /\ IF ok
       THEN LET id == NewRowId(rows)
            IN  /\ rows' = Put(rows, id, Unwrap(up[u].tags))
                /\ up' = [up EXCEPT ![u].pc = "inserted", ![u].id = id]
       ELSE /\ up' = [up EXCEPT ![u] = Ended(up[u], "panicked")]
            /\ UNCHANGED rows
    /\ resp' = NoResp
    /\ UNCHANGED <<original, thumb, mainPc, bfTodo, tasks, handled, rerun, restarts>>

\* SaveImageBegin with one file name for every id and no existence test.
SaveImageBegin_OnePath(u, ok) ==
    /\ mainPc = "serving"
    /\ up[u].pc = "inserted"
    /\ IF ok
       THEN /\ original' = Put(original, 1, [data |-> Unwrap(up[u].image), full |-> FALSE])
            /\ up' = [up EXCEPT ![u].pc = "writing", ![u].id = 1]
       ELSE /\ up' = [up EXCEPT ![u] = Ended(up[u], "panicked")]
            /\ UNCHANGED original
    /\ resp' = NoResp
    /\ UNCHANGED <<rows, thumb, mainPc, bfTodo, tasks, handled, rerun, restarts>>

\* SaveImageBegin without the existence test of lines 90-93.
SaveImageBegin_Overwrites(u, ok) ==
    /\ mainPc = "serving"
    /\ up[u].pc = "inserted"
    /\ IF ok
       THEN /\ original' = Put(original, up[u].id, [data |-> Unwrap(up[u].image), full |-> FALSE])
            /\ up' = [up EXCEPT ![u].pc = "writing"]
       ELSE /\ up' = [up EXCEPT ![u] = Ended(up[u], "panicked")]
            /\ UNCHANGED original
    /\ resp' = NoResp
    /\ UNCHANGED <<rows, thumb, mainPc, bfTodo, tasks, handled, rerun, restarts>>

\* save_image up to the creation of the file (79-96): create_dir_all or the
\* creation fails, or the file is already there ("File already exists");
\* otherwise the file exists and is being written.
SaveImageBegin(u, ok) ==
    /\ mainPc = "serving"
    /\ up[u].pc = "inserted"
    /\ IF ~ok
       THEN /\ up' = [up EXCEPT ![u] = Ended(up[u], "panicked")]
            /\ UNCHANGED original
       ELSE IF up[u].id \in DOMAIN original
       THEN /\ up' = [up EXCEPT ![u] = [Ended(up[u], "panicked") EXCEPT !.err = AlreadyExists]]
            /\ UNCHANGED original
       ELSE /\ original' = Put(original, up[u].id, [data |-> Unwrap(up[u].image), full |-> FALSE])
            /\ up' = [up EXCEPT ![u].pc = "writing"]
    /\ resp' = NoResp
    /\ UNCHANGED <<rows, thumb, mainPc, bfTodo, tasks, handled, rerun, restarts>>

\* The rest of tokio::fs::write (96): all bytes are written, or an error
\* leaves the file incomplete and the unwrap at 122 panics.
SaveImageEnd(u, ok) ==
    /\ mainPc = "serving"
    /\ up[u].pc = "writing"
    /\ IF ok
       THEN /\ original' = [original EXCEPT ![up[u].id].full = TRUE]
            /\ up' = [up EXCEPT ![u].pc = "saved"]
       ELSE /\ up' = [up EXCEPT ![u] = Ended(up[u], "panicked")]
            /\ UNCHANGED original
    /\ resp' = NoResp
    /\ UNCHANGED <<rows, thumb, mainPc, bfTodo, tasks, handled, rerun, restarts>>

\* SpawnThumbnail that forgets to dispatch the task.
SpawnThumbnail_NoDispatch(u) ==
    /\ mainPc = "serving"
    /\ up[u].pc = "saved"
    /\ up' = [up EXCEPT ![u].pc = "spawned"]
    /\ resp' = NoResp
    /\ UNCHANGED <<rows, original, thumb, mainPc, bfTodo, tasks, handled, rerun, restarts>>

\* SpawnThumbnail whose closure captures the wrong id.
SpawnThumbnail_FixedId(u) ==
    /\ mainPc = "serving"
    /\ up[u].pc = "saved"
    /\ tasks' = Put(tasks, u, [id |-> 1, pc |-> "queued"])
    /\ up' = [up EXCEPT ![u].pc = "spawned"]
    /\ resp' = NoResp
    /\ UNCHANGED <<rows, original, thumb, mainPc, bfTodo, handled, rerun, restarts>>

\* spawn_blocking(move || make_thumbnail(id).unwrap()) (123-125): the join
\* handle is dropped.
SpawnThumbnail(u) ==
    /\ mainPc = "serving"
    /\ up[u].pc = "saved"
    /\ tasks' = Put(tasks, u, [id |-> up[u].id, pc |-> "queued"])
    /\ up' = [up EXCEPT ![u].pc = "spawned"]
    /\ resp' = NoResp
    /\ UNCHANGED <<rows, original, thumb, mainPc, bfTodo, handled, rerun, restarts>>

\* UploadRespond that first awaits the join handle of the thumbnail task.
UploadRespond_AwaitsTask(u, ok) ==
    /\ mainPc = "serving"
    /\ up[u].pc = "spawned"
    /\ u \in DOMAIN tasks
    /\ tasks[u].pc \in {"done", "failed"}
    /\ up' = IF ok /\ tasks[u].pc = "done"
             THEN [up EXCEPT ![u].pc = "responded", ![u].page = RedirectPage]
             ELSE [up EXCEPT ![u] = Ended(up[u], "panicked")]
    /\ resp' = NoResp
    /\ UNCHANGED <<rows, original, thumb, mainPc, bfTodo, tasks, handled, rerun, restarts>>

\* The redirect page is read and returned (130-132).
UploadRespond(u, ok) ==
    /\ mainPc = "serving"
    /\ up[u].pc = "spawned"
    /\ up' = IF ok
             THEN [up EXCEPT ![u].pc = "responded", ![u].page = RedirectPage]
             ELSE [up EXCEPT ![u] = Ended(up[u], "panicked")]
    /\ resp' = NoResp
    /\ UNCHANGED <<rows, original, thumb, mainPc, bfTodo, tasks, handled, rerun, restarts>>

\* ReadBlob that creates the file it does not find and streams it, empty.
ReadBlob_NeverMissing(dir, id) ==
    IF id \in DOMAIN dir THEN Some(dir[id]) ELSE Some([data |-> "", full |-> TRUE])

\* --------------------------------------- get_image, get_thumbnail (136-209)
\* File::open(..).await.unwrap(): a missing file is NotFound; otherwise the
\* body streams what the file holds.
ReadBlob(dir, id) == IF id \in DOMAIN dir THEN Some(dir[id]) ELSE NotFound

GetImage(id) ==
    /\ mainPc = "serving"
    /\ resp' = [kind |-> "image", id |-> id, result |-> ReadBlob(original, id)]
    /\ handled' = TRUE
    /\ UNCHANGED <<rows, original, thumb, mainPc, bfTodo, up, tasks, rerun, restarts>>

GetThumbnail(id) ==
    /\ mainPc = "serving"
    /\ resp' = [kind |-> "thumb", id |-> id, result |-> ReadBlob(thumb, id)]
    /\ handled' = TRUE
    /\ UNCHANGED <<rows, original, thumb, mainPc, bfTodo, up, tasks, rerun, restarts>>

\* ------------------------------------------------- list_images (262-268)
Min(S) == CHOOSE x \in S : \A y \in S : x <= y

\* OrderById with the order reversed (ORDER BY id DESC).
RECURSIVE OrderById_Descending(_)
OrderById_Descending(S) ==
    IF S = {} THEN <<>> ELSE <<Max(S)>> \o OrderById_Descending(S \ {Max(S)})

\* ORDER BY id: the ids of S in ascending order.
RECURSIVE OrderById(_)
OrderById(S) == IF S = {} THEN <<>> ELSE <<Min(S)>> \o OrderById(S \ {Min(S)})

\* The ImageRecord of a row.
ImageRecord(id) == [id |-> id, tags |-> rows[id]]

\* SELECT id, tags FROM images ORDER BY id, as JSON.
ListImages ==
    /\ mainPc = "serving"
    /\ LET ids == OrderById(DOMAIN rows)
       IN  resp' = [kind |-> "list", id |-> NoId,
                    result |-> [i \in 1..Len(ids) |-> ImageRecord(ids[i])]]
    /\ handled' = TRUE
    /\ UNCHANGED <<rows, original, thumb, mainPc, bfTodo, up, tasks, rerun, restarts>>

\* ----------------------------------------------- search_images (276-303)
UpperCase ==
    <<"A", "B", "C", "D", "E", "F", "G", "H", "I", "J", "K", "L", "M",
      "N", "O", "P", "Q", "R", "S", "T", "U", "V", "W", "X", "Y", "Z">>

LowerCase ==
    <<"a", "b", "c", "d", "e", "f", "g", "h", "i", "j", "k", "l", "m",
      "n", "o", "p", "q", "r", "s", "t", "u", "v", "w", "x", "y", "z">>

\* The database's LIKE compares ASCII letters without regard to case.
Fold(c) ==
    IF \E i \in 1..Len(UpperCase) : UpperCase[i] = c
    THEN LowerCase[CHOOSE i \in 1..Len(UpperCase) : UpperCase[i] = c]
    ELSE c

\* `t LIKE p` from position i of the pattern and j of the text: % stands for
\* any run of characters, _ for any one character, no escape character.
RECURSIVE LikeFrom(_, _, _, _)
LikeFrom(p, i, t, j) ==
    IF i > Len(p) THEN j > Len(t)
    ELSE IF p[i] = "%" THEN \E k \in j..(Len(t) + 1) : LikeFrom(p, i + 1, t, k)
    ELSE IF j > Len(t) THEN FALSE
    ELSE IF p[i] = "_" THEN LikeFrom(p, i + 1, t, j + 1)
    ELSE Fold(p[i]) = Fold(t[j]) /\ LikeFrom(p, i + 1, t, j + 1)

Like(t, p) == LikeFrom(p, 1, t, 1)

\* The texts a search form carries in its tags field.
Queries == {<<"c", "a">>, <<"C", "A">>, <<"_">>}

\* format!("%{}%", form.tags); SELECT id ... WHERE tags LIKE ? ORDER BY id;
\* one link pair per row found, in the order of the rows.
SearchImages(s) ==
    /\ mainPc = "serving"
    /\ LET tag == <<"%">> \o s \o <<"%">>
       IN  resp' = [kind |-> "search", id |-> NoId,
                    result |-> [q |-> s,
                                links |-> OrderById({id \in DOMAIN rows : Like(rows[id], tag)})]]
    /\ handled' = TRUE
    /\ UNCHANGED <<rows, original, thumb, mainPc, bfTodo, up, tasks, rerun, restarts>>

\* ---------------------------------------------------------------- restart
UploadEnded(r) == r.pc \in {"idle", "responded", "panicked", "killed"}

\* The process ends (returns from main, panics in main or is killed) and is
\* started again: the table and the files stay, handlers and tasks are gone.
Restart ==
    /\ restarts < MaxRestarts
    /\ mainPc # "init"
    /\ restarts' = restarts + 1
    /\ mainPc' = "init"
    /\ bfTodo' = {}
    /\ up' = [u \in Slots |-> IF UploadEnded(up[u]) THEN up[u] ELSE Ended(up[u], "killed")]
    /\ tasks' = <<>>
    /\ rerun' = (mainPc = "serving" /\ ~handled)
    /\ handled' = FALSE
    /\ resp' = NoResp
    /\ UNCHANGED <<rows, original, thumb>>

Next ==
    \/ \E ok \in BOOLEAN : MainStart(ok)
    \/ \E ok \in BOOLEAN : BackfillNext(ok)
    \/ BackfillJoin
    \/ \E ok \in BOOLEAN : Serve(ok)
    \/ \E o \in 0..MaxUploads, ok \in BOOLEAN : MakeThumbnailStart(o, ok)
    \/ \E o \in 0..MaxUploads, ok \in BOOLEAN : MakeThumbnailFinish(o, ok)
    \/ \E u \in Slots, body \in Bodies : UploadParse(u, body)
    \/ \E u \in Slots, ok \in BOOLEAN : InsertImage(u, ok)
    \/ \E u \in Slots, ok \in BOOLEAN : SaveImageBegin(u, ok)
    \/ \E u \in Slots, ok \in BOOLEAN : SaveImageEnd(u, ok)
    \/ \E u \in Slots : SpawnThumbnail(u)
    \/ \E u \in Slots, ok \in BOOLEAN : UploadRespond(u, ok)
    \/ \E id \in Ids : GetImage(id)
    \/ \E id \in Ids : GetThumbnail(id)
    \/ ListImages
    \/ \E s \in Queries : SearchImages(s)
    \/ Restart

Spec == Init /\ [][Next]_vars

\* ------------------------------------- a directory that is not empty at first
\* The first run finds images/1.jpg already there (the directory was kept
\* while the database is new): the case the test of lines 90-93 is for.
InitLeftover ==
    /\ rows = <<>>
    /\ original = Put(<<>>, 1, [data |-> "jpegB", full |-> TRUE])
    /\ thumb = <<>>
    /\ mainPc = "init"
    /\ bfTodo = {}
    /\ up = [u \in Slots |-> IdleUpload]
    /\ tasks = <<>>
    /\ resp = NoResp
    /\ handled = FALSE
    /\ rerun = FALSE
    /\ restarts = 0

LeftoverSpec == InitLeftover /\ [][Next]_vars

\* ------------------------------------------------ queries of a filled table
\* The tag texts of the rows an earlier run has stored.
TagTexts ==
    {<<"c", "a", "t">>, <<"s", "c", "a", "l", "e">>, <<"d", "o", "g">>, <<"C", "a", "t">>,
     <<"a", "_", "b">>}

\* The process serves a table that earlier runs have filled; every row has
\* its two complete files.
InitSearch ==
    /\ \E n \in 0..MaxUploads : rows \in [1..n -> TagTexts]
    /\ original = [id \in DOMAIN rows |-> [data |-> "jpegA", full |-> TRUE]]
    /\ thumb = [id \in DOMAIN rows |-> [data |-> Thumbnail("jpegA"), full |-> TRUE]]
    /\ mainPc = "serving"
    /\ bfTodo = {}
    /\ up = [u \in Slots |-> IdleUpload]
    /\ tasks = <<>>
    /\ resp = NoResp
    /\ handled = FALSE
    /\ rerun = FALSE
    /\ restarts = 0

NextSearch ==
    \/ ListImages
    \/ \E s \in Queries : SearchImages(s)

SearchSpec == InitSearch /\ [][NextSearch]_vars

\* ----------------------------------------------- fair runs without failures
\* No handler is in flight and no task is queued or running.
Quiescent ==
    /\ \A u \in Slots : UploadEnded(up[u])
    /\ \A o \in DOMAIN tasks : tasks[o].pc \in {"done", "failed"}

\* The process is stopped while idle and started again.
OrderlyRestart == Quiescent /\ Restart

MainStep ==
    \/ MainStart(TRUE)
    \/ BackfillNext(TRUE)
    \/ BackfillJoin
    \/ Serve(TRUE)

HandlerStep(u) ==
    \/ InsertImage(u, TRUE)
    \/ SaveImageBegin(u, TRUE)
    \/ SaveImageEnd(u, TRUE)
    \/ SpawnThumbnail(u)
    \/ UploadRespond(u, TRUE)

TaskStep(o) ==
    \/ MakeThumbnailStart(o, TRUE)
    \/ MakeThumbnailFinish(o, TRUE)

\* The runs in which no database or filesystem call fails and the process is
\* never killed while it works.
NextLive ==
    \/ MainStep
    \/ \E u \in Slots : HandlerStep(u)
    \/ \E o \in 0..MaxUploads : TaskStep(o)
    \/ \E u \in Slots, body \in Bodies : UploadParse(u, body)
    \/ \E id \in Ids : GetImage(id)
    \/ \E id \in Ids : GetThumbnail(id)
    \/ ListImages
    \/ \E s \in Queries : SearchImages(s)
    \/ OrderlyRestart

\* The runtime keeps polling main and every handler, and the blocking pool
\* runs every task it was given.
LiveSpec ==
    /\ Init
    /\ [][NextLive]_vars
    /\ WF_vars(MainStep)
    /\ \A u \in Slots : WF_vars(HandlerStep(u))
    /\ \A o \in 0..MaxUploads : WF_vars(TaskStep(o))

\* ------------------------------------------------------------------ claims

\* C1: every id with a row in the Record Store has its Original Image Blob,
\* in every reachable state.
C1_EveryRowHasOriginal ==
    \A id \in DOMAIN rows : id \in DOMAIN original

\* C2: an upload whose body lacks the image part or the tags part, or has a
\* part of another name, fails and has no effect: it ends panicked with no id
\* and no task, and the step that reads it changes no row, no blob and no task.
C2_MalformedUploadHasNoEffect ==
    /\ [](\A u \in Slots : up[u].bad =>
              /\ up[u].pc = "panicked"
              /\ up[u].id = NoId
              /\ u \notin DOMAIN tasks)
    /\ [][\A u \in Slots : (up[u].pc = "idle" /\ up'[u].bad) =>
              UNCHANGED <<rows, original, thumb, tasks>>]_vars

C2_Witness ==
    \E u \in Slots : up[u].bad /\ up[u].pc = "panicked" /\ mainPc = "serving"

\* C3: requests are handled only in the serving state, which is entered only
\* from a successfully finished backfill, and when serving begins every id
\* of the Record Store has a thumbnail file.
C3_ServingOnlyAfterBackfill ==
    /\ [](handled => mainPc = "serving")
    /\ []((mainPc \in {"ready", "serving"} /\ ~handled) =>
              \A id \in DOMAIN rows : id \in DOMAIN thumb)
    /\ [][(mainPc # "serving" /\ mainPc' = "serving") =>
              (mainPc = "ready" /\ bfTodo = {} /\ tasks = <<>>)]_vars

C3_Witness ==
    /\ mainPc = "serving"
    /\ ~handled
    /\ rows # <<>>

\* The backfill task has ended with an error that main has not yet seen.
BackfillFailed ==
    /\ mainPc = "backfill"
    /\ 0 \in DOMAIN tasks
    /\ tasks[0].pc = "failed"

\* C4: when the backfill's enumeration or a generation fails, nothing more
\* is generated and the run never serves: the next step of main is the abort,
\* from the aborted state only a restart follows, and no request is handled.
C4_BackfillFailureNeverServes ==
    /\ [](mainPc = "aborted" => (~handled /\ tasks = <<>>))
    /\ [][BackfillFailed =>
              (mainPc' \in {"aborted", "init"} /\ tasks' = <<>> /\ UNCHANGED store)]_vars
    /\ [][mainPc = "aborted" =>
              (mainPc' \in {"aborted", "init"} /\ UNCHANGED <<store, tasks>>)]_vars

C4_Witness ==
    /\ mainPc = "aborted"
    /\ \E id \in DOMAIN rows \ bfTodo : id \notin DOMAIN thumb

\* Upload u has inserted its row and written all of a decodable original.
WrittenDecodable(u) ==
    /\ up[u].pc \in {"saved", "spawned", "responded"}
    /\ \E b \in up[u].image : Decodable(b)

ThumbComplete(id) == id \in DOMAIN thumb /\ thumb[id].full

\* C5: in a fair run without failures, after an upload has written a
\* decodable original the complete thumbnail of its id eventually exists; a
\* thumbnail file that exists stays, and GET /thumb/{id} never answers
\* NotFound for it.
C5_ThumbnailEventually ==
    /\ \A u \in Slots : WrittenDecodable(u) ~> ThumbComplete(up[u].id)
    /\ [][\A id \in Ids : id \in DOMAIN thumb => id \in DOMAIN thumb']_vars
    /\ []((resp.kind = "thumb" /\ resp.id \in DOMAIN thumb) => resp.result # NotFound)

C5_Witness ==
    \E u \in Slots :
        /\ WrittenDecodable(u)
        /\ ThumbComplete(up[u].id)
        /\ resp = [kind |-> "thumb", id |-> up[u].id, result |-> Some(thumb[up[u].id])]

\* C6: the response of an upload does not wait for its thumbnail task: once
\* the task is dispatched the response can be sent whatever the task's state,
\* and a GET /thumb/{id} for an id without a thumbnail file answers NotFound,
\* also after the upload of that id has responded.
C6_GenerationNotAwaited ==
    /\ \A u \in Slots : (up[u].pc = "spawned" /\ mainPc = "serving") =>
           ENABLED UploadRespond(u, TRUE)
    /\ (resp.kind = "thumb" /\ resp.id \notin DOMAIN thumb) => resp.result = NotFound

C6_Witness ==
    \E u \in Slots :
        /\ up[u].pc = "responded"
        /\ up[u].id \notin DOMAIN thumb
        /\ u \in DOMAIN tasks
        /\ tasks[u].pc = "queued"
        /\ resp = [kind |-> "thumb", id |-> up[u].id, result |-> NotFound]

\* The task dispatched by upload u ends with an error in this step.
TaskFails(u) ==
    /\ u \in DOMAIN tasks
    /\ tasks[u].pc # "failed"
    /\ u \in DOMAIN tasks'
    /\ tasks'[u].pc = "failed"

\* C7: a failing thumbnail task of an upload changes no row and no original,
\* leaves every handler and the serving state as they are, and the handler
\* can still respond; every upload that responds sends the redirect page.
C7_GenerationFailureSwallowed ==
    /\ [][\A u \in Slots : TaskFails(u) =>
              (mainPc' = "serving" /\ UNCHANGED <<rows, original, up>>)]_vars
    /\ [](\A u \in Slots : (u \in DOMAIN tasks /\ tasks[u].pc = "failed" /\ up[u].pc = "spawned") =>
              ENABLED UploadRespond(u, TRUE))
    /\ [](\A u \in Slots : up[u].pc = "responded" => up[u].page = RedirectPage)

C7_Witness ==
    \E u \in Slots :
        /\ up[u].pc = "responded"
        /\ up[u].page = RedirectPage
        /\ u \in DOMAIN tasks
        /\ tasks[u].pc = "failed"
        /\ mainPc = "serving"
        /\ resp.kind = "image"

\* C8: a GET /image/{id} answered after the upload of id has responded
\* returns exactly the bytes of that upload, complete.
C8_GetImageReturnsUploadedBytes ==
    \A u \in Slots :
        (up[u].pc = "responded" /\ resp.kind = "image" /\ resp.id = up[u].id) =>
            resp.result = Some([data |-> Unwrap(up[u].image), full |-> TRUE])

C8_Witness ==
    \E u, v \in Slots :
        /\ up[u].pc = "responded"
        /\ up[v].pc = "responded"
        /\ up[u].image # up[v].image
        /\ resp.kind = "image"
        /\ resp.id = up[u].id
        /\ resp.result = Some([data |-> Unwrap(up[u].image), full |-> TRUE])

\* C9: every inserted row gets an id greater than every id already in the
\* table, rows are never removed, and no two uploads hold the same id.
C9_IdsStrictlyIncreasing ==
    /\ [][\A id \in DOMAIN rows' \ DOMAIN rows : \A j \in DOMAIN rows : id > j]_vars
    /\ [][DOMAIN rows \subseteq DOMAIN rows']_vars
    /\ [](\A u, v \in Slots : (u # v /\ up[u].id # NoId) => up[u].id # up[v].id)

C9_Witness ==
    \E u, v \in Slots :
        /\ u < v
        /\ up[u].pc = "inserted"
        /\ up[v].pc = "inserted"
        /\ up[u].id > up[v].id

\* C10: in a run that starts directly after a run whose backfill succeeded,
\* the backfill invokes the generator for no id and changes no row and no blob.
C10_BackfillIdempotent ==
    [][(rerun /\ mainPc \in {"init", "backfill"}) =>
           (tasks' = <<>> /\ UNCHANGED store)]_vars

C10_Witness ==
    /\ rerun
    /\ mainPc = "ready"
    /\ rows # <<>>

\* C11: a GET /image/{id} or GET /thumb/{id} for an id that no upload was
\* ever given (rows are never removed, so: an id without a row) answers
\* NotFound, and a GET changes no row, blob, handler or task.
C11_UnknownIdNotFound ==
    /\ []((resp.kind \in {"image", "thumb"} /\ resp.id \notin DOMAIN rows) =>
              resp.result = NotFound)
    /\ [][resp'.kind \in {"image", "thumb"} =>
              UNCHANGED <<rows, original, thumb, mainPc, bfTodo, up, tasks>>]_vars

C11_Witness ==
    /\ rows # <<>>
    /\ resp.kind = "thumb"
    /\ resp.id \notin DOMAIN rows
    /\ resp.result = NotFound

\* C12: whenever a thumbnail file is present for an id, its content is the
\* generator's result for the current original of that id.
C12_ThumbnailIsGeneratedFromOriginal ==
    \A id \in DOMAIN thumb :
        /\ id \in DOMAIN original
        /\ thumb[id] = [data |-> Thumbnail(original[id].data), full |-> TRUE]

\* C16: a run that follows a restart never ends in the aborted state: its
\* backfill completes and the Gateway starts serving (in runs where no
\* database or filesystem call fails).
C16_RestartReachesServing ==
    restarts > 0 => mainPc # "aborted"

\* C17: every GET /thumb/{id} answers NotFound or the complete thumbnail
\* file, never a file that is only partly written.
C17_GetThumbnailNeverPartial ==
    resp.kind = "thumb" => \A f \in resp.result : f.full

\* save_image of upload u has been called and has not returned.
SaveInProgress(u) == up[u].pc \in {"inserted", "writing"}

\* The make_thumbnail task of owner o is queued or running.
GenerationInProgress(o) == o \in DOMAIN tasks /\ tasks[o].pc \in {"queued", "saving"}

\* C18: no two save_image calls and no two thumbnail generations for the
\* same id are in progress at the same time; a backfill generation runs
\* alone and only before serving.
C18_OneWriterPerPath ==
    /\ \A u, v \in Slots :
           (u # v /\ SaveInProgress(u) /\ SaveInProgress(v)) => up[u].id # up[v].id
    /\ \A o, p \in 0..MaxUploads :
           (o # p /\ GenerationInProgress(o) /\ GenerationInProgress(p)) =>
               tasks[o].id # tasks[p].id
    /\ 0 \in DOMAIN tasks => (mainPc = "backfill" /\ DOMAIN tasks = {0})
    /\ \A u \in Slots : GenerationInProgress(u) => tasks[u].id = up[u].id

C18_Witness ==
    \E u, v \in Slots :
        /\ GenerationInProgress(u)
        /\ GenerationInProgress(v)
        /\ tasks[u].pc = "saving"
        /\ tasks[v].pc = "saving"
        /\ tasks[u].id # tasks[v].id

\* C19: from an empty table and an empty directory, an original exists only
\* for an id with a row, a thumbnail only for an id with an original, and a
\* generation is dispatched by an upload only after its original is
\* completely written.
C19_BlobsOnlyForRecordedIds ==
    /\ DOMAIN original \subseteq DOMAIN rows
    /\ DOMAIN thumb \subseteq DOMAIN original
    /\ \A u \in Slots : u \in DOMAIN tasks =>
           (tasks[u].id \in DOMAIN original /\ original[tasks[u].id].full)

C19_Witness ==
    \E id \in DOMAIN rows :
        /\ ThumbComplete(id)
        /\ id \in DOMAIN original
        /\ \E other \in DOMAIN rows : other \notin DOMAIN original

\* Some upload is between the creation and the end of its write of id.
BeingWritten(id) == \E u \in Slots : up[u].pc = "writing" /\ up[u].id = id

\* C13: an original is never removed and, once its upload has finished
\* writing it, never changed (the upload that is writing it only completes
\* it); save_image for an id whose file exists fails with "File already
\* exists" and leaves the file as it is.
C13_OriginalImmutable ==
    /\ [][\A id \in DOMAIN original :
              /\ id \in DOMAIN original'
              /\ original'[id].data = original[id].data
              /\ original[id].full => original'[id].full
              /\ ~BeingWritten(id) => original'[id] = original[id]]_vars
    /\ [][\A u \in Slots :
              (up[u].pc = "inserted" /\ up[u].id \in DOMAIN original /\ up'[u].pc # "inserted") =>
                  /\ up'[u].pc \in {"panicked", "killed"}
                  /\ up'[u].pc = "panicked" => up'[u].err \in {AlreadyExists, "none"}
                  /\ original' = original]_vars
    /\ [](\A u \in Slots : up[u].err = AlreadyExists =>
              (up[u].pc = "panicked" /\ up[u].id \in DOMAIN original /\ ~BeingWritten(up[u].id)))

C13_Witness ==
    \E u \in Slots :
        /\ up[u].err = AlreadyExists
        /\ up[u].id = 1
        /\ original[1] = [data |-> "jpegB", full |-> TRUE]
        /\ \E id \in DOMAIN original : id # 1 /\ original[id].full

\* C14: GET /images returns exactly the rows of the table at the time of the
\* query, each once, in strictly ascending id order.
C14_ListAscendingAndExact ==
    resp.kind = "list" =>
        /\ Len(resp.result) = Cardinality(DOMAIN rows)
        /\ \A id \in DOMAIN rows :
               \E i \in 1..Len(resp.result) : resp.result[i] = [id |-> id, tags |-> rows[id]]
        /\ \A i, j \in 1..Len(resp.result) : i < j => resp.result[i].id < resp.result[j].id

C14_Witness ==
    /\ resp.kind = "list"
    /\ Len(resp.result) = 2
    /\ \E u, v \in Slots : u < v /\ up[v].id = 1 /\ up[u].id = 2 /\ up[v].pc = "inserted"

\* s occurs in t as a run of consecutive, equal characters.
Contains(t, s) ==
    \E k \in 0..(Len(t) - Len(s)) : \A i \in 1..Len(s) : t[k + i] = s[i]

\* C15: POST /search with tags = s links exactly the rows whose tags contain
\* s as a case-sensitive literal substring, in ascending id order.
C15_SearchLiteralSubstring ==
    resp.kind = "search" =>
        LET links == resp.result.links
        IN  /\ {links[i] : i \in 1..Len(links)} =
                   {id \in DOMAIN rows : Contains(rows[id], resp.result.q)}
            /\ \A i, j \in 1..Len(links) : i < j => links[i] < links[j]

====
